---- MODULE Spec2Model ----
(***************************************************************************)
(* Model of cubes/custom_auth.py (the DeMaT authorizer and its access      *)
(* right) and of cubes/sql/utils.py (permission split, permission          *)
(* enforcement on a statement, query ordering).                            *)
(*                                                                         *)
(* Strings are sequences of one-character strings, so that startswith,     *)
(* endswith and slicing are computed as Python computes them.              *)
(***************************************************************************)
EXTENDS Integers, Sequences, FiniteSets, TLC

VARIABLES
    order,               \* the authorizer's "order" option as configured
    allow_after_denied,  \* DematAuthorizer.allow_after_denied
    provider,            \* JSON object the rights provider holds for the identity
    request,             \* the call the engine makes: operation and arguments
    pc,                  \* "pending" before the call, "done" after it
    right,               \* the _DematAccessRight built during the call (None before)
    ret,                 \* value the call returned (None if none)
    raised,              \* exception that left the call ("none" if it returned)
    outcome,             \* how the call's rights fetch ended ("none": no fetch)
    fetches,             \* number of rights fetches performed so far
    statement,           \* the relational statement object (mutable where clause)
    perm                 \* (aux_cell, permissions_cell) of the last split

vars == <<order, allow_after_denied, provider, request, pc, right, ret, raised,
          outcome, fetches, statement, perm>>

authVars == <<order, allow_after_denied, provider>>

\* A value that may be None is a sequence: empty for None, else of the value
None == <<>>
Some(v) == <<v>>
Val(x) == x[1]

----------------------------------------------------------------------------
(* Bounds of the model *)

MaxSet == 2      \* entries in allowed_cubes / denied_cubes
MaxCubes == 2    \* generated candidate cube lists
MaxSpecs == 2    \* cut specs registered under one cell_restrictions key
MaxUserCuts == 2 \* cuts of a cell passed in by the engine
MaxWhere == 2    \* predicates a statement carries before enforcement
MaxOrder == 2    \* terms of an explicit order

----------------------------------------------------------------------------
(* Strings *)

sales == <<"s","a","l","e","s">>
hr == <<"h","r">>
sales_test == <<"s","a","l","e","s","_","t","e","s","t">>
billing_test == <<"b","i","l","l","i","n","g","_","t","e","s","t">>
sales_eu == <<"s","a","l","e","s","_","e","u">>
sales_us == <<"s","a","l","e","s","_","u","s">>
star_test == <<"*","_","t","e","s","t">>
sales_star == <<"s","a","l","e","s","*">>
star_eu == <<"*","_","e","u">>

ALL_CUBES_WILDCARD == <<"*">>

\* str.startswith
StartsWith(s, p) == Len(p) <= Len(s) /\ SubSeq(s, 1, Len(p)) = p

\* str.endswith
EndsWith(s, p) == Len(p) <= Len(s) /\ SubSeq(s, Len(s) - Len(p) + 1, Len(s)) = p

\* s[1:]
DropFirst(s) == SubSeq(s, 2, Len(s))

\* s[:-1]
DropLast(s) == SubSeq(s, 1, Len(s) - 1)

\* the sequences over S of length at most n
SeqsUpTo(S, n) == UNION {[1..k -> S] : k \in 0..n}

\* set(list)
PySet(list) == {list[i] : i \in DOMAIN list}

RECURSIVE SetToSeq(_)
\* a JSON array listing the elements of S once each
SetToSeq(S) ==
    IF S = {} THEN <<>>
    ELSE LET x == CHOOSE y \in S : TRUE IN <<x>> \o SetToSeq(S \ {x})

----------------------------------------------------------------------------
(* _DematAccessRight *)

\* _get_patterns with the two slices exchanged
get_patterns_swapped(allowed_cubes, denied_cubes) ==
    [allowed_cube_suffix |->
        {DropLast(cube) : cube \in {c \in allowed_cubes : StartsWith(c, <<"*">>)}},
     allowed_cube_prefix |->
        {DropFirst(cube) : cube \in {c \in allowed_cubes : EndsWith(c, <<"*">>)}},
     denied_cube_suffix |->
        {DropLast(cube) : cube \in {c \in denied_cubes : StartsWith(c, <<"*">>)}},
     denied_cube_prefix |->
        {DropFirst(cube) : cube \in {c \in denied_cubes : EndsWith(c, <<"*">>)}}]

\* _get_patterns: the four match lists (used only through any(), hence sets)
get_patterns(allowed_cubes, denied_cubes) ==
    [allowed_cube_suffix |->
        {DropFirst(cube) : cube \in {c \in allowed_cubes : StartsWith(c, <<"*">>)}},
     allowed_cube_prefix |->
        {DropLast(cube) : cube \in {c \in allowed_cubes : EndsWith(c, <<"*">>)}},
     denied_cube_suffix |->
        {DropFirst(cube) : cube \in {c \in denied_cubes : StartsWith(c, <<"*">>)}},
     denied_cube_prefix |->
        {DropLast(cube) : cube \in {c \in denied_cubes : EndsWith(c, <<"*">>)}}]

\* string_to_dimension_level, on a "dimension@hierarchy:level" string held as
\* its three parts
string_to_dimension_level(limit) == <<limit.dimension, limit.hierarchy, limit.level>>

\* isinstance(x, compat.string_type) for the values the provider sends
IsString(x) == x.form = "string"

RECURSIVE NormalizeLimits(_)
\* the inner loop of __init__ over one cube's limits
NormalizeLimits(limits) ==
    IF limits = <<>> THEN <<>>
    ELSE <<IF IsString(Head(limits))
           THEN string_to_dimension_level(Head(limits))
           ELSE Head(limits)>> \o NormalizeLimits(Tail(limits))

\* _DematAccessRight.__init__
DematAccessRight(allowed_cubes, denied_cubes, cell_restrictions, hierarchy_limits) ==
    LET allowed == IF allowed_cubes # None /\ Val(allowed_cubes) # <<>>
                   THEN PySet(Val(allowed_cubes)) ELSE {}
        denied == IF denied_cubes # None /\ Val(denied_cubes) # <<>>
                  THEN PySet(Val(denied_cubes)) ELSE {}
        pats == get_patterns(allowed, denied)
    IN  [cell_restrictions |->
            IF cell_restrictions # None THEN Val(cell_restrictions) ELSE <<>>,
         hierarchy_limits |->
            IF hierarchy_limits # None
            THEN [i \in DOMAIN Val(hierarchy_limits) |->
                     <<Val(hierarchy_limits)[i][1],
                       NormalizeLimits(Val(hierarchy_limits)[i][2])>>]
            ELSE <<>>,
         allowed_cubes |-> allowed,
         denied_cubes |-> denied,
         allowed_cube_suffix |-> pats.allowed_cube_suffix,
         allowed_cube_prefix |-> pats.allowed_cube_prefix,
         denied_cube_suffix |-> pats.denied_cube_suffix,
         denied_cube_prefix |-> pats.denied_cube_prefix]

\* the match of `name` against one set and its two pattern lists
\* (is_allowed, lines 56-64 for allow and 66-74 for deny)
Match(name, cubes, prefix, suffix) ==
    IF cubes # {}
    THEN LET m1 == (name \in cubes) \/ (ALL_CUBES_WILDCARD \in cubes)
             m2 == IF ~m1 /\ prefix # {}
                   THEN \E p \in prefix : StartsWith(name, p)
                   ELSE m1
             m3 == IF ~m2 /\ suffix # {}
                   THEN \E p \in suffix : EndsWith(name, p)
                   ELSE m2
         IN  m3
    ELSE FALSE

\* is_allowed that resolves both orders as allow_deny
is_allowed_deny_wins(self, name, aad) ==
    LET allow == Match(name, self.allowed_cubes,
                       self.allowed_cube_prefix, self.allowed_cube_suffix)
        deny == Match(name, self.denied_cubes,
                      self.denied_cube_prefix, self.denied_cube_suffix)
    IN  allow /\ ~deny

\* _DematAccessRight.is_allowed
is_allowed(self, name, aad) ==
    LET allow == Match(name, self.allowed_cubes,
                       self.allowed_cube_prefix, self.allowed_cube_suffix)
        deny == Match(name, self.denied_cubes,
                      self.denied_cube_prefix, self.denied_cube_suffix)
    IN  IF aad THEN allow \/ ~deny ELSE allow /\ ~deny

----------------------------------------------------------------------------
(* Cubes, cuts and cells *)

\* a cube: its name, its fact table and the fact table's key
Cube(name) == [name |-> name, fact |-> <<"f","t","_">> \o name, key |-> <<"i","d">>]

\* str(cube)
Str(cube) == cube.name

\* Cell(cube, cuts); Cell(cube) has no cuts
Cell(cube, cuts) == [cube |-> cube, cuts |-> cuts]

\* Cell.__and__: the cuts of both operands, concatenated
CellAnd(a, b) == Cell(a.cube, a.cuts \o b.cuts)

\* truth value of `cell` in `if cell:` (a cell that was supplied)
CellSupplied(cell) == cell # None

\* index of the first ":" of a cut string
ColonAt(text) == CHOOSE i \in 1..Len(text) :
                    text[i] = ":" /\ \A j \in 1..(i - 1) : text[j] # ":"

\* cut_from_string on "dimension:value"
cut_from_string(text, cube) ==
    [dimension |-> SubSeq(text, 1, ColonAt(text) - 1),
     values |-> <<SubSeq(text, ColonAt(text) + 1, Len(text))>>,
     hidden |-> FALSE]

\* cut_from_dict on {"dimension": ..., "values": [...]}
cut_from_dict(desc) ==
    [dimension |-> desc.dimension, values |-> desc.values, hidden |-> FALSE]

\* dict.get(key, default) on a JSON object held as a sequence of <<key, value>>
Get(dict, key, default) ==
    IF \E i \in DOMAIN dict : dict[i][1] = key
    THEN dict[CHOOSE i \in DOMAIN dict : dict[i][1] = key][2]
    ELSE default

----------------------------------------------------------------------------
(* DematAuthorizer *)

\* DematAuthorizer.__init__: the allow/deny order (the url is present)
AllowAfterDenied(ord) ==
    LET o == IF ord = None THEN "deny_allow" ELSE Val(ord)
    IN  IF o = "allow_deny" THEN FALSE ELSE TRUE

\* how one rights fetch ends
FetchOutcomes == {"ok", "network", "http_status", "json_decode"}

\* _rightRequest: the decoded JSON object, or the error of the transport or
\* of the decoder
rightRequest(end, data) ==
    IF end = "ok" THEN [failed |-> FALSE, data |-> data, error |-> "none", attempts |-> 1]
    ELSE [failed |-> TRUE, data |-> <<>>, error |-> end, attempts |-> 1]

RECURSIVE AuthorizedLoop(_, _, _)
\* the loop of authorize over the candidate cubes
AuthorizedLoop(cubes, rgt, aad) ==
    IF cubes = <<>> THEN <<>>
    ELSE LET cube == Head(cubes)
             cube_name == Str(cube)
         IN  (IF is_allowed(rgt, cube_name, aad) THEN <<cube>> ELSE <<>>)
             \o AuthorizedLoop(Tail(cubes), rgt, aad)

\* authorize that calls is_allowed without the configured order
authorize_default_order(aad, fetched, cubes) ==
    IF fetched.failed
    THEN [ret |-> Some(<<>>), raised |-> "none", fetches |-> fetched.attempts]
    ELSE LET rgt == DematAccessRight(fetched.data.allowed_cubes,
                                     fetched.data.denied_cubes, None, None)
         IN  [ret |-> Some(AuthorizedLoop(cubes, rgt, TRUE)), raised |-> "none",
              fetches |-> fetched.attempts]

\* DematAuthorizer.authorize, given the outcome of its fetch
authorize(aad, fetched, cubes) ==
    IF fetched.failed
    THEN [ret |-> Some(<<>>), raised |-> "none", fetches |-> fetched.attempts]
    ELSE LET rgt == DematAccessRight(fetched.data.allowed_cubes,
                                     fetched.data.denied_cubes, None, None)
         IN  [ret |-> Some(AuthorizedLoop(cubes, rgt, aad)), raised |-> "none",
              fetches |-> fetched.attempts]

RECURSIVE RestrictionCuts_visible(_, _)
\* the loop of restricted_cell without `cut.hidden = True`
RestrictionCuts_visible(cuts, cube) ==
    IF cuts = <<>> THEN <<>>
    ELSE LET spec == Head(cuts)
             cut == IF IsString(spec) THEN cut_from_string(spec.text, cube)
                    ELSE cut_from_dict(spec)
         IN  <<cut>> \o RestrictionCuts_visible(Tail(cuts), cube)

RECURSIVE RestrictionCuts(_, _)
\* the loop of restricted_cell over the collected cut specs
RestrictionCuts(cuts, cube) ==
    IF cuts = <<>> THEN <<>>
    ELSE LET spec == Head(cuts)
             cut == IF IsString(spec) THEN cut_from_string(spec.text, cube)
                    ELSE cut_from_dict(spec)
         IN  <<[cut EXCEPT !.hidden = TRUE]>> \o RestrictionCuts(Tail(cuts), cube)

\* restricted_cell that answers a failed fetch with the unrestricted cell
restricted_cell_fail_open(fetched, cube, cell) ==
    IF fetched.failed
    THEN [ret |-> Some(Cell(cube, <<>>)), raised |-> "none",
          fetches |-> fetched.attempts]
    ELSE LET rgt == DematAccessRight(None, None, fetched.data.cell_restrictions, None)
             own == Get(rgt.cell_restrictions, cube.name, <<>>)
             any_cuts == Get(rgt.cell_restrictions, ALL_CUBES_WILDCARD, <<>>)
             cuts == IF any_cuts # <<>> THEN own \o any_cuts ELSE own
             restriction == IF cuts # <<>>
                            THEN Cell(cube, RestrictionCuts(cuts, cube))
                            ELSE Cell(cube, <<>>)
         IN  [ret |-> IF CellSupplied(cell) THEN Some(CellAnd(Val(cell), restriction))
                      ELSE Some(restriction),
              raised |-> "none", fetches |-> fetched.attempts]

\* restricted_cell that returns `restriction & cell`
restricted_cell_restriction_first(fetched, cube, cell) ==
    IF fetched.failed
    THEN [ret |-> None, raised |-> fetched.error, fetches |-> fetched.attempts]
    ELSE LET rgt == DematAccessRight(None, None, fetched.data.cell_restrictions, None)
             own == Get(rgt.cell_restrictions, cube.name, <<>>)
             any_cuts == Get(rgt.cell_restrictions, ALL_CUBES_WILDCARD, <<>>)
             cuts == IF any_cuts # <<>> THEN own \o any_cuts ELSE own
             restriction == IF cuts # <<>>
                            THEN Cell(cube, RestrictionCuts(cuts, cube))
                            ELSE Cell(cube, <<>>)
         IN  [ret |-> IF CellSupplied(cell) THEN Some(CellAnd(restriction, Val(cell)))
                      ELSE Some(restriction),
              raised |-> "none", fetches |-> fetched.attempts]

\* DematAuthorizer.restricted_cell, given the outcome of its fetch
restricted_cell(fetched, cube, cell) ==
    IF fetched.failed
    THEN [ret |-> None, raised |-> fetched.error, fetches |-> fetched.attempts]
    ELSE LET rgt == DematAccessRight(None, None, fetched.data.cell_restrictions, None)
             own == Get(rgt.cell_restrictions, cube.name, <<>>)
             any_cuts == Get(rgt.cell_restrictions, ALL_CUBES_WILDCARD, <<>>)
             cuts == IF any_cuts # <<>> THEN own \o any_cuts ELSE own
             restriction == IF cuts # <<>>
                            THEN Cell(cube, RestrictionCuts(cuts, cube))
                            ELSE Cell(cube, <<>>)
         IN  [ret |-> IF CellSupplied(cell) THEN Some(CellAnd(Val(cell), restriction))
                      ELSE Some(restriction),
              raised |-> "none", fetches |-> fetched.attempts]

\* DematAuthorizer.hierarchy_limits, given the outcome of its fetch
hierarchy_limits(fetched, cube) ==
    IF fetched.failed
    THEN [ret |-> None, raised |-> fetched.error, fetches |-> fetched.attempts]
    ELSE LET rgt == DematAccessRight(None, None, None, fetched.data.hierarchy_limits)
         IN  [ret |-> Some(Get(rgt.hierarchy_limits, Str(cube), <<>>)),
              raised |-> "none", fetches |-> fetched.attempts]

----------------------------------------------------------------------------
(* What the rights provider may hold and what the engine may ask *)

region == <<"r","e","g","i","o","n">>
country == <<"c","o","u","n","t","r","y">>
EU == <<"E","U">>
FR == <<"F","R">>

PatternPool == {sales, star_test, sales_test, sales_star, star_eu, ALL_CUBES_WILDCARD}

NamePool == {sales, hr, sales_test, billing_test, sales_eu, sales_us,
             ALL_CUBES_WILDCARD}

\* allowed_cubes / denied_cubes of a response: absent, or a JSON array
CubeArrays ==
    {None} \cup {Some(SetToSeq(S)) :
                    S \in {T \in SUBSET PatternPool : Cardinality(T) <= MaxSet}}

\* a restriction cut as the provider sends it: structured, or a string to parse
CutSpecPool ==
    {[form |-> "dict", dimension |-> region, values |-> <<EU>>, text |-> <<>>],
     [form |-> "string", dimension |-> <<>>, values |-> <<>>,
      text |-> <<"y","e","a","r",":","2","0","2","0">>]}

\* the entry of one key of cell_restrictions: absent, or a list of cut specs
RestrictionEntries(key) ==
    {<<>>} \cup {<< <<key, l>> >> : l \in SeqsUpTo(CutSpecPool, MaxSpecs)}

CellRestrictionDicts ==
    {None} \cup {Some(own \o any) : own \in RestrictionEntries(sales),
                                   any \in RestrictionEntries(ALL_CUBES_WILDCARD)}

\* a hierarchy limit as the provider sends it: a string, or already structured
LimitPool ==
    {[form |-> "string", dimension |-> <<"d","a","t","e">>,
      hierarchy |-> <<"y","m","d">>, level |-> <<"y","e","a","r">>],
     [form |-> "list", dimension |-> region,
      hierarchy |-> <<"g","e","o">>, level |-> country]}

HierarchyLimitDicts ==
    {None, Some(<<>>)} \cup {Some(<< <<sales, l>> >>) : l \in SeqsUpTo(LimitPool, 2)}

Response(allowed, denied, restrictions, limits) ==
    [allowed_cubes |-> allowed, denied_cubes |-> denied,
     cell_restrictions |-> restrictions, hierarchy_limits |-> limits]

AuthorizeResponses == {Response(a, d, None, None) : a \in CubeArrays, d \in CubeArrays}
RestrictedCellResponses == {Response(None, None, r, None) : r \in CellRestrictionDicts}
HierarchyLimitsResponses == {Response(None, None, None, h) : h \in HierarchyLimitDicts}

ScenarioCubes == <<Cube(sales), Cube(hr), Cube(sales_test), Cube(billing_test)>>

CandidateLists ==
    SeqsUpTo({Cube(sales), Cube(hr), Cube(sales_test)}, MaxCubes) \cup {ScenarioCubes}

\* cuts of a cell of the engine's own: shown to the user unless marked hidden
UserCutPool ==
    {[dimension |-> country, values |-> <<FR>>, hidden |-> FALSE],
     [dimension |-> region, values |-> <<EU>>, hidden |-> TRUE]}

RequestCubes == {Cube(sales), Cube(hr), Cube(ALL_CUBES_WILDCARD)}

Request(op, name, cubes, cube, cell) ==
    [op |-> op, name |-> name, cubes |-> cubes, cube |-> cube, cell |-> cell]

IsAllowedRequests == {Request("is_allowed", n, <<>>, Cube(n), None) : n \in NamePool}
AuthorizeRequests ==
    {Request("authorize", <<>>, l, Cube(sales), None) : l \in CandidateLists}
RestrictedCellRequests ==
    {Request("restricted_cell", <<>>, <<>>, c, None) : c \in RequestCubes}
    \cup {Request("restricted_cell", <<>>, <<>>, c, Some(Cell(c, cuts))) :
             c \in RequestCubes, cuts \in SeqsUpTo(UserCutPool, MaxUserCuts)}
HierarchyLimitsRequests ==
    {Request("hierarchy_limits", <<>>, <<>>, c, None) : c \in RequestCubes}

Orders == {None, Some("allow_deny"), Some("deny_allow")}

----------------------------------------------------------------------------
(* The authorizer *)

Init ==
    /\ order \in Orders
    /\ allow_after_denied = AllowAfterDenied(order)
    /\ \E call \in
            (AuthorizeResponses \X (IsAllowedRequests \cup AuthorizeRequests))
            \cup (RestrictedCellResponses \X RestrictedCellRequests)
            \cup (HierarchyLimitsResponses \X HierarchyLimitsRequests) :
          /\ provider = call[1]
          /\ request = call[2]
    /\ pc = "pending"
    /\ right = None
    /\ ret = None
    /\ raised = "none"
    /\ outcome = "none"
    /\ fetches = 0
    /\ statement = None
    /\ perm = None

\* right.is_allowed(name, self.allow_after_denied) on the right built from the
\* provider's allow and deny lists
IsAllowed ==
    /\ pc = "pending"
    /\ request.op = "is_allowed"
    /\ right' = Some(DematAccessRight(provider.allowed_cubes,
                                      provider.denied_cubes, None, None))
    /\ ret' = Some(is_allowed(Val(right'), request.name, allow_after_denied))
    /\ pc' = "done"
    /\ UNCHANGED <<authVars, request, raised, outcome, fetches, statement, perm>>

Authorize ==
    /\ pc = "pending"
    /\ request.op = "authorize"
    /\ \E end \in FetchOutcomes :
          LET fetched == rightRequest(end, provider)
              out == authorize(allow_after_denied, fetched, request.cubes)
          IN  /\ ret' = out.ret
              /\ raised' = out.raised
              /\ outcome' = end
              /\ fetches' = fetches + out.fetches
              /\ right' = IF fetched.failed THEN right
                          ELSE Some(DematAccessRight(provider.allowed_cubes,
                                                     provider.denied_cubes,
                                                     None, None))
    /\ pc' = "done"
    /\ UNCHANGED <<authVars, request, statement, perm>>

RestrictedCell ==
    /\ pc = "pending"
    /\ request.op = "restricted_cell"
    /\ \E end \in FetchOutcomes :
          LET fetched == rightRequest(end, provider)
              out == restricted_cell(fetched, request.cube, request.cell)
          IN  /\ ret' = out.ret
              /\ raised' = out.raised
              /\ outcome' = end
              /\ fetches' = fetches + out.fetches
              /\ right' = IF fetched.failed THEN right
                          ELSE Some(DematAccessRight(None, None,
                                                     provider.cell_restrictions,
                                                     None))
    /\ pc' = "done"
    /\ UNCHANGED <<authVars, request, statement, perm>>

HierarchyLimits ==
    /\ pc = "pending"
    /\ request.op = "hierarchy_limits"
    /\ \E end \in FetchOutcomes :
          LET fetched == rightRequest(end, provider)
              out == hierarchy_limits(fetched, request.cube)
          IN  /\ ret' = out.ret
              /\ raised' = out.raised
              /\ outcome' = end
              /\ fetches' = fetches + out.fetches
              /\ right' = IF fetched.failed THEN right
                          ELSE Some(DematAccessRight(None, None, None,
                                                     provider.hierarchy_limits))
    /\ pc' = "done"
    /\ UNCHANGED <<authVars, request, statement, perm>>

Next == IsAllowed \/ Authorize \/ RestrictedCell \/ HierarchyLimits

Spec == Init /\ [][Next]_vars

----------------------------------------------------------------------------
(* cubes/sql/utils.py: permission cuts of a cell and their enforcement *)

\* dict.get(key, None) == value, on a dict held as a sequence of <<key, value>>
HasItem(dict, key, value) == \E i \in DOMAIN dict : dict[i] = <<key, value>>

\* cut.dimension.info.get('type', None) == 'Permission'
IsPermissionCut(cut) == HasItem(cut.dimension.info, "type", "Permission")

\* extract_permissions_from_cell that leaves aux_cell.cuts as they were
extract_permissions_keep_all(cell) ==
    IF ~CellSupplied(cell) THEN <<None, None>>
    ELSE LET aux_cell == Cell(Val(cell).cube, Val(cell).cuts)
             permissions_cuts == SelectSeq(aux_cell.cuts, IsPermissionCut)
             NotPermission(cut) ==
                 ~\E i \in DOMAIN permissions_cuts : permissions_cuts[i] = cut
         IN  IF permissions_cuts # <<>>
             THEN <<Some(aux_cell),
                    Some(Cell(aux_cell.cube, permissions_cuts))>>
             ELSE <<Some(aux_cell), None>>

\* extract_permissions_from_cell: (aux_cell, permissions_cell)
extract_permissions_from_cell(cell) ==
    IF ~CellSupplied(cell) THEN <<None, None>>
    ELSE LET aux_cell == Cell(Val(cell).cube, Val(cell).cuts)
             permissions_cuts == SelectSeq(aux_cell.cuts, IsPermissionCut)
             NotPermission(cut) ==
                 ~\E i \in DOMAIN permissions_cuts : permissions_cuts[i] = cut
         IN  IF permissions_cuts # <<>>
             THEN <<Some(Cell(aux_cell.cube, SelectSeq(aux_cell.cuts, NotPermission))),
                    Some(Cell(aux_cell.cube, permissions_cuts))>>
             ELSE <<Some(aux_cell), None>>

\* the predicate appended by apply_permissions_to_statement: the fact key
\* equals the key column of the subquery "allowed_records", which selects the
\* distinct fact keys under the condition of the permissions cell
PermissionPredicate(sql_browser, permissions_cell) ==
    [left |-> permissions_cell.cube.fact \o <<".">> \o permissions_cell.cube.key,
     right |-> <<"allowed_records", "__fact_key__">>,
     columns |-> <<sql_browser.fact_key_column>>,
     whereclause |-> permissions_cell.cuts,
     distinct |-> TRUE]

\* Select.append_whereclause: the clause is ANDed to the ones already there
append_whereclause(stmt, clause) == [stmt EXCEPT !.where = @ \o <<clause>>]

\* apply_permissions_to_statement that sets the where clause instead of
\* appending to it
apply_permissions_replacing(sql_browser, stmt, permissions_cell) ==
    IF sql_browser # None /\ stmt # None /\ permissions_cell # None
    THEN Some([Val(stmt) EXCEPT !.where =
                 <<PermissionPredicate(Val(sql_browser), Val(permissions_cell))>>])
    ELSE stmt

\* apply_permissions_to_statement: the statement object after the call (the
\* function itself returns nothing)
apply_permissions_to_statement(sql_browser, stmt, permissions_cell) ==
    IF sql_browser # None /\ stmt # None /\ permissions_cell # None
    THEN Some(append_whereclause(
                Val(stmt), PermissionPredicate(Val(sql_browser), Val(permissions_cell))))
    ELSE stmt

----------------------------------------------------------------------------
(* The engine's query on a cube with permission dimensions *)

tenant == <<"t","e","n","a","n","t">>
owner == <<"o","w","n","e","r">>
kind == <<"k","i","n","d">>

Dimension(name, info) == [name |-> name, info |-> info]

QueryCutPool ==
    {[dimension |-> Dimension(region, <<>>), values |-> <<EU>>, hidden |-> FALSE],
     [dimension |-> Dimension(kind, << <<"type", "Category">> >>),
      values |-> <<FR>>, hidden |-> FALSE],
     [dimension |-> Dimension(tenant, << <<"type", "Permission">> >>),
      values |-> <<EU>>, hidden |-> TRUE],
     [dimension |-> Dimension(owner, << <<"type", "Permission">> >>),
      values |-> <<FR>>, hidden |-> TRUE]}

QueryCells ==
    {None} \cup {Some(Cell(Cube(sales), cuts)) :
                    cuts \in SeqsUpTo(QueryCutPool, MaxUserCuts)}

\* predicates the statement carries before enforcement
PredicatePool ==
    {[left |-> region, right |-> <<"E","U">>, columns |-> <<>>,
      whereclause |-> <<>>, distinct |-> FALSE],
     [left |-> kind, right |-> <<"F","R">>, columns |-> <<>>,
      whereclause |-> <<>>, distinct |-> FALSE]}

Select(columns, where, order_by) ==
    [columns |-> columns, where |-> where, order_by |-> order_by]

c_amount == <<"a","m","o","u","n","t","_","s","u","m">>

Statements ==
    {None} \cup {Some(Select(<<c_amount>>, w, <<>>)) :
                    w \in SeqsUpTo(PredicatePool, MaxWhere)}

Browsers == {None, Some([fact_key_column |-> <<"__fact_key__">>])}

InitPerm ==
    /\ order = None
    /\ allow_after_denied = AllowAfterDenied(order)
    /\ provider = Response(None, None, None, None)
    /\ request \in [op : {"query"}, cell : QueryCells, sql_browser : Browsers]
    /\ statement \in Statements
    /\ pc = "pending"
    /\ right = None
    /\ ret = None
    /\ raised = "none"
    /\ outcome = "none"
    /\ fetches = 0
    /\ perm = None

\* (aux_cell, permissions_cell) = extract_permissions_from_cell(cell)
ExtractPermissions ==
    /\ pc = "pending"
    /\ request.op = "query"
    /\ perm' = Some(extract_permissions_from_cell(request.cell))
    /\ pc' = "split"
    /\ UNCHANGED <<authVars, request, right, ret, raised, outcome, fetches, statement>>

\* apply_permissions_to_statement(sql_browser, statement, permissions_cell)
ApplyPermissions ==
    /\ pc = "split"
    /\ request.op = "query"
    /\ statement' = apply_permissions_to_statement(
                        request.sql_browser, statement, Val(perm)[2])
    /\ ret' = None
    /\ pc' = "done"
    /\ UNCHANGED <<authVars, request, right, raised, outcome, fetches, perm>>

NextPerm == ExtractPermissions \/ ApplyPermissions

SpecPerm == InitPerm /\ [][NextPerm]_vars

----------------------------------------------------------------------------
(* cubes/sql/utils.py: ordering of a statement *)

SPLIT_DIMENSION_NAME ==
    <<"_","_","w","i","t","h","i","n","_","s","p","l","i","t","_","_">>

\* one character of str.lower(), on the letters the directions use
LowerChar(c) ==
    CASE c = "A" -> "a" [] c = "S" -> "s" [] c = "C" -> "c"
      [] c = "D" -> "d" [] c = "E" -> "e" [] OTHER -> c

\* str.lower()
Lower(str) == [i \in DOMAIN str |-> LowerChar(str[i])]

\* a column expression: the column and the direction put on it
ColumnExpr(column, direction) == [column |-> column, direction |-> direction]

\* order_column: the ordered column, or the exception raised (the name
\* ArgumentError is not defined in the module)
order_column(column, direction) ==
    IF direction = None \/ Val(direction) = <<>>
    THEN [raised |-> "none", column |-> column]
    ELSE IF StartsWith(Lower(Val(direction)), <<"a","s","c">>)
    THEN [raised |-> "none", column |-> [column EXCEPT !.direction = "asc"]]
    ELSE IF StartsWith(Lower(Val(direction)), <<"d","e","s","c">>)
    THEN [raised |-> "none", column |-> [column EXCEPT !.direction = "desc"]]
    ELSE [raised |-> "NameError", column |-> column]

\* key in dict
HasKey(dict, key) == \E i \in DOMAIN dict : dict[i][1] = key

\* dict[key] = value on an OrderedDict
SetItem(dict, key, value) ==
    IF HasKey(dict, key)
    THEN [i \in DOMAIN dict |-> IF dict[i][1] = key THEN <<key, value>> ELSE dict[i]]
    ELSE Append(dict, <<key, value>>)

RECURSIVE ZipTo(_, _, _)
\* the first n pairs of zip(labels, columns), as an OrderedDict
ZipTo(labels, columns, n) ==
    IF n = 0 THEN <<>>
    ELSE SetItem(ZipTo(labels, columns, n - 1), labels[n],
                 ColumnExpr(columns[n], "none"))

\* OrderedDict(zip(labels, statement.columns))
Zip(labels, columns) ==
    ZipTo(labels, columns,
          IF Len(labels) < Len(columns) THEN Len(labels) ELSE Len(columns))

RECURSIVE ExplicitOrder(_, _, _)
\* the loop of order_query over the explicit order: the final order after
\* it, or the exception that ended it
ExplicitOrder(ord, columns, final_order) ==
    IF ord = <<>> THEN [raised |-> "none", final_order |-> final_order]
    ELSE LET attribute == Head(ord)[1]
             direction == Head(ord)[2]
         IN  IF ~HasKey(columns, attribute)
             THEN [raised |-> "KeyError", final_order |-> final_order]
             ELSE LET oc == order_column(Get(columns, attribute, None), direction)
                  IN  IF oc.raised # "none"
                      THEN [raised |-> oc.raised, final_order |-> final_order]
                      ELSE ExplicitOrder(
                               Tail(ord), columns,
                               IF ~HasKey(final_order, attribute)
                               THEN SetItem(final_order, attribute, oc.column)
                               ELSE final_order)

\* the loop of order_query over the selected columns: `name not in order_by`
\* is evaluated for the first column that has a natural order, and order_by
\* is not a name of the function or of the module
NaturalOrder(columns, natural_order, final_order) ==
    IF \E i \in DOMAIN columns : HasKey(natural_order, columns[i][1])
    THEN [raised |-> "NameError", final_order |-> final_order]
    ELSE [raised |-> "none", final_order |-> final_order]

\* dict.values()
Values(dict) == [i \in DOMAIN dict |-> dict[i][2]]

\* Select.order_by: a new statement ordered by the clauses
order_by(stmt, clauses) == [stmt EXCEPT !.order_by = @ \o clauses]

\* order_query: the ordered statement, or the exception raised
order_query(stmt, ord, natural_order, labels) ==
    LET ord1 == IF ord = None THEN <<>> ELSE Val(ord)
        labels1 == IF labels = None THEN <<>> ELSE Val(labels)
        natural1 == IF natural_order = None THEN <<>> ELSE Val(natural_order)
        columns == Zip(labels1, stmt.columns)
        final0 == IF \E i \in DOMAIN stmt.columns :
                        stmt.columns[i] = SPLIT_DIMENSION_NAME
                  THEN SetItem(<<>>, SPLIT_DIMENSION_NAME,
                               ColumnExpr(SPLIT_DIMENSION_NAME, "none"))
                  ELSE <<>>
        explicit == ExplicitOrder(ord1, columns, final0)
        natural == NaturalOrder(columns, natural1, explicit.final_order)
    IN  IF explicit.raised # "none" THEN [ret |-> None, raised |-> explicit.raised]
        ELSE IF natural.raised # "none" THEN [ret |-> None, raised |-> natural.raised]
        ELSE [ret |-> Some(order_by(stmt, Values(natural.final_order))),
              raised |-> "none"]

----------------------------------------------------------------------------
(* The engine's ordering of a statement *)

year == <<"y","e","a","r">>
amount == <<"a","m","o","u","n","t">>
c_year == <<"d","_","y","e","a","r">>

\* the columns a statement may select, with the logical label of each
SelectedColumns ==
    {<<>>, <<c_year>>, <<c_amount>>, <<c_year, c_amount>>, <<c_amount, c_year>>,
     <<SPLIT_DIMENSION_NAME, c_year>>, <<SPLIT_DIMENSION_NAME, c_year, c_amount>>}

LabelOf(column) ==
    IF column = c_year THEN year
    ELSE IF column = c_amount THEN amount
    ELSE column

Labels(columns) == [i \in DOMAIN columns |-> LabelOf(columns[i])]

Directions ==
    {None, Some(<<>>), Some(<<"a","s","c">>), Some(<<"D","E","S","C">>),
     Some(<<"u","p">>)}

OrderTerms == {year, amount, region} \X Directions

NaturalOrders ==
    {None} \cup
    {Some(SetToSeq({<<a, f[a]>> : a \in D})) :
        D \in SUBSET {year, amount},
        f \in [{year, amount} -> {<<"a","s","c">>, <<"d","e","s","c">>}]}

InitOrder ==
    /\ order = None
    /\ allow_after_denied = AllowAfterDenied(order)
    /\ provider = Response(None, None, None, None)
    /\ \E columns \in SelectedColumns :
          /\ statement = Some(Select(columns, <<>>, <<>>))
          /\ request \in [op : {"order_query"},
                           order : {None} \cup {Some(o) : o \in SeqsUpTo(OrderTerms, MaxOrder)},
                           natural_order : NaturalOrders,
                           labels : {None, Some(Labels(columns))}]
    /\ pc = "pending"
    /\ right = None
    /\ ret = None
    /\ raised = "none"
    /\ outcome = "none"
    /\ fetches = 0
    /\ perm = None

\* statement = order_query(statement, order, natural_order, labels)
OrderQuery ==
    /\ pc = "pending"
    /\ request.op = "order_query"
    /\ LET out == order_query(Val(statement), request.order,
                              request.natural_order, request.labels)
       IN  /\ ret' = out.ret
           /\ raised' = out.raised
    /\ pc' = "done"
    /\ UNCHANGED <<authVars, request, right, outcome, fetches, statement, perm>>

NextOrder == OrderQuery

SpecOrder == InitOrder /\ [][NextOrder]_vars

----------------------------------------------------------------------------
(* Properties of the authorizer *)

\* the entries of an allow or deny list of the response
Entries(array) == IF array = None THEN {} ELSE PySet(Val(array))

\* `name` is an entry, or the universal wildcard is one, or an entry with a
\* leading "*" ends the name, or an entry with a trailing "*" begins it
Matches(name, entries) ==
    \/ name \in entries
    \/ <<"*">> \in entries
    \/ \E e \in entries :
          \/ e # <<>> /\ e[1] = "*"
             /\ \E k \in 0..Len(name) : SubSeq(name, k + 1, Len(name)) = SubSeq(e, 2, Len(e))
          \/ e # <<>> /\ e[Len(e)] = "*"
             /\ \E k \in 0..Len(name) : SubSeq(name, 1, k) = SubSeq(e, 1, Len(e) - 1)

allowMatch(name) == Matches(name, Entries(provider.allowed_cubes))
denyMatch(name) == Matches(name, Entries(provider.denied_cubes))

\* the truth table of section 4.1
TruthTable(allow, deny, denyThenAllow) ==
    CASE allow /\ ~deny -> TRUE
      [] ~allow /\ deny -> FALSE
      [] ~allow /\ ~deny -> denyThenAllow
      [] allow /\ deny -> denyThenAllow

IsAllowedDone == pc = "done" /\ request.op = "is_allowed"

\* C1: is_allowed returns the truth-table value of (allowMatch, denyMatch):
\* allowMatch OR NOT denyMatch under deny_allow, allowMatch AND NOT denyMatch
\* under allow_deny, for every access right and every name.
C1_TruthTable ==
    IsAllowedDone =>
        LET a == allowMatch(request.name)
            d == denyMatch(request.name)
        IN  /\ Val(ret) = TruthTable(a, d, allow_after_denied)
            /\ allow_after_denied => (Val(ret) <=> (a \/ ~d))
            /\ ~allow_after_denied => (Val(ret) <=> (a /\ ~d))

\* a name matched by both lists is allowed under deny_allow
C1_Witness ==
    /\ IsAllowedDone
    /\ allowMatch(request.name) /\ denyMatch(request.name)
    /\ allow_after_denied /\ Val(ret) = TRUE

AuthorizeDone == pc = "done" /\ request.op = "authorize"

Passes(cube) ==
    TruthTable(allowMatch(cube.name), denyMatch(cube.name), allow_after_denied)

ScenarioRights ==
    /\ Entries(provider.allowed_cubes) = {sales, star_test}
    /\ Entries(provider.denied_cubes) = {sales_test}

\* C2: after a successful fetch authorize returns the candidates that pass
\* is_allowed under the configured order, in candidate order, nothing added;
\* for allowed [sales, *_test], denied [sales_test] and candidates
\* [sales, hr, sales_test, billing_test] that is all four under deny_allow
\* and [sales, billing_test] under allow_deny.
C2_AuthorizeFilters ==
    (AuthorizeDone /\ outcome = "ok") =>
        /\ raised = "none"
        /\ Val(ret) = SelectSeq(request.cubes, Passes)
        /\ (ScenarioRights /\ request.cubes = ScenarioCubes) =>
              /\ order = Some("deny_allow") => Val(ret) = ScenarioCubes
              /\ order = Some("allow_deny") =>
                    Val(ret) = <<Cube(sales), Cube(billing_test)>>

\* scenario B has run
C2_Witness ==
    /\ AuthorizeDone /\ outcome = "ok"
    /\ ScenarioRights /\ request.cubes = ScenarioCubes
    /\ order = Some("allow_deny")
    /\ Val(ret) = <<Cube(sales), Cube(billing_test)>>

FetchFailed == outcome \in {"network", "http_status", "json_decode"}

\* C3: when the rights fetch fails, authorize returns the empty sequence and
\* raises nothing, restricted_cell and hierarchy_limits raise the failure and
\* return nothing; each call fetches once.
C3_FailureAsymmetry ==
    /\ (pc = "done" /\ FetchFailed /\ request.op = "authorize") =>
          ret = Some(<<>>) /\ raised = "none"
    /\ (pc = "done" /\ FetchFailed
          /\ request.op \in {"restricted_cell", "hierarchy_limits"}) =>
          ret = None /\ raised = outcome
    /\ (pc = "done"
          /\ request.op \in {"authorize", "restricted_cell", "hierarchy_limits"}) =>
          fetches = 1

\* a failed fetch has left restricted_cell as an exception
C3_Witness ==
    /\ pc = "done" /\ request.op = "restricted_cell"
    /\ outcome = "network" /\ raised = "network" /\ ret = None
    /\ provider.cell_restrictions # None

RestrictedCellDone ==
    pc = "done" /\ request.op = "restricted_cell" /\ outcome = "ok"

\* number of cuts of the cell the engine passed in
UserCuts == IF request.cell = None THEN 0 ELSE Len(Val(request.cell).cuts)

\* C4 (as amended): every restriction cut of the cell returned by
\* restricted_cell, that is every cut after those of existingCell, has
\* hidden = true; with no existingCell, or one without cuts, that is every cut.
C4_RestrictionCutsHidden ==
    RestrictedCellDone =>
        \A i \in (UserCuts + 1)..Len(Val(ret).cuts) : Val(ret).cuts[i].hidden

\* C4 (as claimed): every cut of the returned cell has hidden = true, also
\* when existingCell carries the user's own cuts.
C4_AllCutsHidden ==
    RestrictedCellDone =>
        \A i \in DOMAIN Val(ret).cuts : Val(ret).cuts[i].hidden

\* a visible cut of the user's is followed by hidden restriction cuts
C4_Witness ==
    /\ RestrictedCellDone
    /\ UserCuts > 0 /\ ~Val(ret).cuts[1].hidden
    /\ Len(Val(ret).cuts) > UserCuts
    /\ \A i \in (UserCuts + 1)..Len(Val(ret).cuts) : Val(ret).cuts[i].hidden

\* the cut specs registered under `key`
Registered(key) ==
    IF provider.cell_restrictions = None THEN <<>>
    ELSE Get(Val(provider.cell_restrictions), key, <<>>)

\* the hidden cut a cut spec stands for
HiddenCut(spec) ==
    [dimension |-> IF spec.form = "string"
                   THEN cut_from_string(spec.text, request.cube).dimension
                   ELSE spec.dimension,
     values |-> IF spec.form = "string"
                THEN cut_from_string(spec.text, request.cube).values
                ELSE spec.values,
     hidden |-> TRUE]

HiddenCuts(specs) == [i \in DOMAIN specs |-> HiddenCut(specs[i])]

\* the registrations that apply to the cube: <<key, position>>
Applicable ==
    UNION {{<<k, i>> : i \in DOMAIN Registered(k)} :
              k \in {request.cube.name, ALL_CUBES_WILDCARD}}

\* C5: with no existing cell, restricted_cell returns a cell on the cube whose
\* cuts are those registered under the cube's name followed by those
\* registered under "*", each once; {"*": [region=EU]} gives exactly one cut
\* whatever the cube's name, and no matching rule gives the empty cell.
C5_OwnThenWildcardOnce ==
    (RestrictedCellDone /\ request.cell = None) =>
        /\ Val(ret).cube = request.cube
        /\ Val(ret).cuts = HiddenCuts(Registered(request.cube.name))
                           \o HiddenCuts(Registered(ALL_CUBES_WILDCARD))
        /\ Len(Val(ret).cuts) = Cardinality(Applicable)
        /\ provider.cell_restrictions =
              Some(<< <<ALL_CUBES_WILDCARD, <<[form |-> "dict", dimension |-> region,
                                              values |-> <<EU>>, text |-> <<>>]>> >> >>)
              => Val(ret).cuts = <<[dimension |-> region, values |-> <<EU>>,
                                    hidden |-> TRUE]>>
        /\ (Registered(request.cube.name) = <<>>
              /\ Registered(ALL_CUBES_WILDCARD) = <<>>) => Val(ret).cuts = <<>>

\* the restriction cell of the same call made without an existing cell
RestrictionAlone ==
    Val(restricted_cell(rightRequest("ok", provider), request.cube, None).ret)

\* C9: restricted_cell(id, cube, A) = A & restricted_cell(id, cube, null) for
\* every non-null A, also one without cuts: A's cuts, then the restriction
\* cuts.
C9_ExistingCellIntersects ==
    (RestrictedCellDone /\ request.cell # None) =>
        /\ Val(ret) = CellAnd(Val(request.cell), RestrictionAlone)
        /\ Val(ret).cube = request.cube
        /\ SubSeq(Val(ret).cuts, 1, UserCuts) = Val(request.cell).cuts
        /\ SubSeq(Val(ret).cuts, UserCuts + 1, Len(Val(ret).cuts))
              = RestrictionAlone.cuts

\* a cell with cuts of the user's has met restrictions of both keys
C9_Witness ==
    /\ RestrictedCellDone /\ request.cell # None
    /\ UserCuts > 0
    /\ Registered(request.cube.name) # <<>>
    /\ Registered(ALL_CUBES_WILDCARD) # <<>>
    /\ request.cube.name # ALL_CUBES_WILDCARD
    /\ Len(Val(ret).cuts) = UserCuts + Len(Registered(request.cube.name))
                            + Len(Registered(ALL_CUBES_WILDCARD))

EmptyDeny == Entries(provider.denied_cubes) = {}

HasStar(e) == \E i \in DOMAIN e : e[i] = "*"

\* what C8 says of the match lists and of the entries without "*"
C8_Patterns ==
    IsAllowedDone =>
        /\ Val(right).allowed_cube_suffix =
              {SubSeq(e, 2, Len(e)) :
                  e \in {x \in Entries(provider.allowed_cubes) : x # <<>> /\ x[1] = "*"}}
        /\ Val(right).allowed_cube_prefix =
              {SubSeq(e, 1, Len(e) - 1) :
                  e \in {x \in Entries(provider.allowed_cubes) :
                            x # <<>> /\ x[Len(x)] = "*"}}
        /\ \A e \in Entries(provider.allowed_cubes) :
              (Entries(provider.allowed_cubes) = {e} /\ ~HasStar(e)
                 /\ EmptyDeny /\ ~allow_after_denied)
              => (Val(ret) <=> request.name = e)

\* what C8 says of the names that "sales*", "*_eu" and "*" admit
C8_Admitted ==
    (IsAllowedDone /\ EmptyDeny) =>
        /\ (Entries(provider.allowed_cubes) = {sales_star}
              /\ request.name = sales_eu) => Val(ret) = TRUE
        /\ (Entries(provider.allowed_cubes) = {star_eu}
              /\ request.name = sales_eu) => Val(ret) = TRUE
        /\ ALL_CUBES_WILDCARD \in Entries(provider.allowed_cubes) => Val(ret) = TRUE

\* C8 (as amended): with an empty deny set, {"sales*"} admits "sales_eu" and
\* {"*_eu"} admits "sales_eu" in both orders, {"*_eu"} rejects "sales_us"
\* under allow_deny only (under deny_allow a name nothing denies is admitted),
\* "*" admits every name; a leading "*" gives a suffix pattern, a trailing
\* "*" a prefix pattern, an entry without "*" matches only verbatim.
C8_WildcardMatching ==
    /\ C8_Patterns
    /\ C8_Admitted
    /\ (IsAllowedDone /\ EmptyDeny
          /\ Entries(provider.allowed_cubes) = {star_eu}
          /\ request.name = sales_us) => (Val(ret) <=> allow_after_denied)

\* C8 (as claimed): the same, with {"*_eu"} rejecting "sales_us" in both
\* orders.
C8_RejectsInBothOrders ==
    /\ C8_Patterns
    /\ C8_Admitted
    /\ (IsAllowedDone /\ EmptyDeny
          /\ Entries(provider.allowed_cubes) = {star_eu}
          /\ request.name = sales_us) => Val(ret) = FALSE

\* "sales_us" has been admitted by {"*_eu"} under deny_allow
C8_Witness ==
    /\ IsAllowedDone /\ EmptyDeny
    /\ Entries(provider.allowed_cubes) = {star_eu}
    /\ request.name = sales_us
    /\ allow_after_denied /\ Val(ret) = TRUE

----------------------------------------------------------------------------
(* Properties of the permission split and of its enforcement *)

SplitDone == pc \in {"split", "done"} /\ request.op = "query"

aux_cell == Val(perm)[1]
permissions_cell == Val(perm)[2]

\* the cuts of a cell that may be None
CutSet(cell) == IF cell = None THEN {} ELSE PySet(Val(cell).cuts)

Tagged(cut) ==
    \E i \in DOMAIN cut.dimension.info :
        cut.dimension.info[i][1] = "type" /\ cut.dimension.info[i][2] = "Permission"

\* C7: extract_permissions_from_cell partitions the cuts of the cell: the two
\* cells' cuts together are the input's, none is in both, the permission cell
\* holds exactly the cuts of dimensions tagged "Permission", both cells keep
\* the cube; without tagged cuts the permission cell is None and the data
\* cell has the input's cube and cuts, in order.
C7_SplitPartitions ==
    (SplitDone /\ request.cell # None) =>
        LET cell == Val(request.cell)
        IN  /\ aux_cell # None
            /\ CutSet(aux_cell) \cup CutSet(permissions_cell) = PySet(cell.cuts)
            /\ CutSet(aux_cell) \cap CutSet(permissions_cell) = {}
            /\ CutSet(permissions_cell) = {c \in PySet(cell.cuts) : Tagged(c)}
            /\ Val(aux_cell).cube = cell.cube
            /\ permissions_cell # None => Val(permissions_cell).cube = cell.cube
            /\ (\A c \in PySet(cell.cuts) : ~Tagged(c)) =>
                  permissions_cell = None /\ Val(aux_cell) = cell

\* a cell with a permission cut and another cut has been split
C7_Witness ==
    /\ SplitDone /\ request.cell # None
    /\ permissions_cell # None
    /\ CutSet(aux_cell) # {}
    /\ CutSet(permissions_cell) # {}

\* the predicate that ties the fact key to the permission-filtered keys
IsPermissionPredicate(p, cell) ==
    /\ p.left = cell.cube.fact \o <<".">> \o cell.cube.key
    /\ p.right = <<"allowed_records", "__fact_key__">>
    /\ p.whereclause = cell.cuts
    /\ p.distinct

\* C6: apply_permissions_to_statement leaves the statement as it is when the
\* permission cell is None, the statement is absent or there is no browser;
\* otherwise the statement keeps every predicate it carried and gets exactly
\* one more: fact key = key column of the permission-filtered subquery.
C6_Enforce ==
    [][(pc = "split" /\ pc' = "done") =>
          IF request.sql_browser = None \/ statement = None
             \/ permissions_cell = None
          THEN statement' = statement
          ELSE /\ statement' # None
               /\ Val(statement').columns = Val(statement).columns
               /\ Val(statement').order_by = Val(statement).order_by
               /\ Len(Val(statement').where) = Len(Val(statement).where) + 1
               /\ SubSeq(Val(statement').where, 1, Len(Val(statement).where))
                     = Val(statement).where
               /\ IsPermissionPredicate(
                     Val(statement').where[Len(Val(statement').where)],
                     Val(permissions_cell))]_vars

\* a statement that carried predicates has got the permission predicate
C6_Witness ==
    /\ pc = "done" /\ request.op = "query"
    /\ request.sql_browser # None /\ statement # None /\ permissions_cell # None
    /\ Len(Val(statement).where) > 1
    /\ IsPermissionPredicate(Val(statement).where[Len(Val(statement).where)],
                             Val(permissions_cell))

----------------------------------------------------------------------------
(* Properties of the ordering *)

OrderDone == pc = "done" /\ request.op = "order_query"

ExplicitTerms == IF request.order = None THEN <<>> ELSE Val(request.order)
NaturalTerms ==
    IF request.natural_order = None THEN <<>> ELSE Val(request.natural_order)
LabelList == IF request.labels = None THEN <<>> ELSE Val(request.labels)

DirectionOf(d) ==
    IF d = None \/ Val(d) = <<>> THEN "none"
    ELSE IF Lower(Val(d))[1] = "a" THEN "asc" ELSE "desc"

ValidDirection(d) ==
    \/ d = None
    \/ Val(d) = <<>>
    \/ Len(Val(d)) >= 3 /\ Lower(SubSeq(Val(d), 1, 3)) = <<"a","s","c">>
    \/ Len(Val(d)) >= 4 /\ Lower(SubSeq(Val(d), 1, 4)) = <<"d","e","s","c">>

\* every explicit term names a selected column and a known direction
ValidOrder ==
    \A i \in DOMAIN ExplicitTerms :
        /\ \E j \in DOMAIN LabelList : LabelList[j] = ExplicitTerms[i][1]
        /\ ValidDirection(ExplicitTerms[i][2])

HasSplit ==
    \E i \in DOMAIN Val(statement).columns :
        Val(statement).columns[i] = SPLIT_DIMENSION_NAME

\* the physical column of a logical label
ColumnOf(label) ==
    Val(statement).columns[CHOOSE j \in DOMAIN LabelList : LabelList[j] = label]

\* positions of the explicit terms that are the first of their attribute and
\* are not the split column already placed
FirstExplicit ==
    {i \in DOMAIN ExplicitTerms :
        /\ \A j \in 1..(i - 1) : ExplicitTerms[j][1] # ExplicitTerms[i][1]
        /\ ~(HasSplit /\ ExplicitTerms[i][1] = SPLIT_DIMENSION_NAME)}

\* positions of the selected columns left to their natural order
NaturalColumns ==
    {j \in DOMAIN LabelList :
        /\ \E k \in DOMAIN NaturalTerms : NaturalTerms[k][1] = LabelList[j]
        /\ ~\E i \in DOMAIN ExplicitTerms : ExplicitTerms[i][1] = LabelList[j]
        /\ ~(HasSplit /\ LabelList[j] = SPLIT_DIMENSION_NAME)}

RECURSIVE Ascending(_)
\* the elements of a set of numbers, smallest first
Ascending(S) ==
    IF S = {} THEN <<>>
    ELSE LET m == CHOOSE x \in S : \A y \in S : x <= y
         IN  <<m>> \o Ascending(S \ {m})

\* the ordering C10 describes
ExpectedOrder ==
    (IF HasSplit THEN <<ColumnExpr(SPLIT_DIMENSION_NAME, "none")>> ELSE <<>>)
    \o [n \in DOMAIN Ascending(FirstExplicit) |->
          LET t == ExplicitTerms[Ascending(FirstExplicit)[n]]
          IN  ColumnExpr(ColumnOf(t[1]), DirectionOf(t[2]))]
    \o [n \in DOMAIN Ascending(NaturalColumns) |->
          LET l == LabelList[Ascending(NaturalColumns)[n]]
          IN  ColumnExpr(ColumnOf(l),
                         DirectionOf(Some(Get(NaturalTerms, l, <<>>))))]

\* C10: order_query completes and orders the statement by the split column
\* if selected, then the explicit attributes in the order given (first of
\* each), then every selected column not yet ordered that has a natural
\* order, in that direction.
C10_OrderCompletes ==
    (OrderDone /\ ValidOrder) =>
        /\ raised = "none"
        /\ ret # None
        /\ Val(ret).order_by = ExpectedOrder

\* the part of C10 the code meets: without a selected column that has a
\* natural order, the ordering is the split column and the explicit terms
C10_WithoutNaturalOrder ==
    (OrderDone /\ ValidOrder
       /\ ~\E j \in DOMAIN LabelList, k \in DOMAIN NaturalTerms :
              NaturalTerms[k][1] = LabelList[j]) =>
        /\ raised = "none"
        /\ Val(ret).order_by = ExpectedOrder

====
